---- MODULE Spec2Model ----
(***************************************************************************)
(* Interval containment hierarchy builders of profile_plugins:             *)
(*   build_module_hierarchy  (generate_hierarchy_excel.py)                 *)
(*   parse_trace_hierarchy   (nvtx_hierarchy_tree.py)                      *)
(* Both take a list of trace events (name, ts, dur) and return a flat,     *)
(* depth-annotated pre-order sequence.                                     *)
(*                                                                         *)
(* An event is a record [id, name, ts, dur].  `id` is the identity of the  *)
(* Python dict object (its position in the list the caller passed); it is  *)
(* not a key of the dict and no comparison of the code reads it.  A name   *)
(* is a sequence of characters.  An output entry carries the five keys of  *)
(* the dict the code appends, plus `src`, the id of the event object the   *)
(* entry was built from (a history field, not a key of the dict).          *)
(***************************************************************************)
EXTENDS Integers, Sequences, FiniteSets

\* ---------------------------------------------------------------- bounds
MaxLen == 3
MaxEnd == 2

\* --------------------------------------------------------------- inputs
Digits == {"0", "1", "2", "3", "4", "5", "6", "7", "8", "9"}

Names == {<<"m">>, <<"7">>}

Spans == {sp \in (0 .. MaxEnd) \X (0 .. MaxEnd) : sp[1] + sp[2] <= MaxEnd}

EventValues == {[name |-> n, ts |-> sp[1], dur |-> sp[2]] : n \in Names, sp \in Spans}

\* ------------------------------------------------------ pure helpers
\* str.isdigit(): non-empty and every character a decimal digit
isdigit(name) == Len(name) > 0 /\ \A i \in 1 .. Len(name) : name[i] \in Digits

\* dict equality (==) of two events: by value, never by identity
DictEq(a, b) == a.name = b.name /\ a.ts = b.ts /\ a.dur = b.dur

EndOf(e) == e.ts + e.dur

\* index of the first element with the least ts: what min(events, key=ts) returns
RECURSIVE MinIndexFrom(_, _, _)
MinIndexFrom(s, i, best) ==
    IF i > Len(s) THEN best
    ELSE IF s[i].ts < s[best].ts THEN MinIndexFrom(s, i + 1, i)
    ELSE MinIndexFrom(s, i + 1, best)

\* variant: the last element instead of the first of least ts
MinByTs_Last(s) == s[Len(s)]

MinByTs(s) == s[MinIndexFrom(s, 2, 1)]

RemoveAt(s, k) == [i \in 1 .. Len(s) - 1 |-> IF i < k THEN s[i] ELSE s[i + 1]]

\* variant: the sort left out
SortByTs_NoSort(s) == s

\* sorted(seq, key=ts) / list.sort(key=ts): stable, ascending ts
RECURSIVE SortByTs(_)
SortByTs(s) ==
    IF s = <<>> THEN <<>>
    ELSE LET k == MinIndexFrom(s, 2, 1)
         IN  <<s[k]>> \o SortByTs(RemoveAt(s, k))

\* ---------------------------------------------------------------- state
VARIABLES fn, caller_events, events, root_events, hierarchy, pc, raised

vars == <<fn, caller_events, events, root_events, hierarchy, pc, raised>>

\* the caller holds an empty list and has called nothing yet
Init ==
    /\ fn = "none"
    /\ caller_events = <<>>
    /\ events = <<>>
    /\ root_events = <<>>
    /\ hierarchy = <<>>
    /\ pc = "caller"
    /\ raised = "none"

\* ------------------------------------------------- root selection
\* variant: the `not identical` test (line 75 / 42) left out
ContainsNotIdentical_NonStrict(other, event) ==
    other.ts <= event.ts /\ EndOf(other) >= EndOf(event)

\* lines 74-75 / 40-42: `other` completely contains `event` and is not identical
ContainsNotIdentical(other, event) ==
    /\ other.ts <= event.ts
    /\ EndOf(other) >= EndOf(event)
    /\ (other.ts < event.ts \/ EndOf(other) > EndOf(event))

\* the inner loop over `other` (continue on ==, break on the first container)
is_root(evs, event) ==
    ~\E j \in 1 .. Len(evs) :
        /\ ~DictEq(evs[j], event)
        /\ ContainsNotIdentical(evs[j], event)

\* the elements of s whose flag is set, in order (the root_events.append loop)
RECURSIVE FilterSeq(_, _, _)
FilterSeq(s, keep, i) ==
    IF i > Len(s) THEN <<>>
    ELSE (IF keep[i] THEN <<s[i]>> ELSE <<>>) \o FilterSeq(s, keep, i + 1)

\* build_module_hierarchy: every event that is_root
Module_FindRootEvents(evs) ==
    FilterSeq(evs, [i \in 1 .. Len(evs) |-> is_root(evs, evs[i])], 1)

\* variant: the numeric exclusion (line 48) left out
Trace_FindRootEvents_NoExclusion(evs) ==
    FilterSeq(evs, [i \in 1 .. Len(evs) |-> is_root(evs, evs[i])], 1)

\* parse_trace_hierarchy: every event that is_root and whose name is not numeric
Trace_FindRootEvents(evs) ==
    FilterSeq(evs, [i \in 1 .. Len(evs) |-> is_root(evs, evs[i]) /\ ~isdigit(evs[i].name)], 1)

\* --------------------------------------------------- child discovery
\* variant: only a later start is asked of a candidate, its end is not looked at
InsideNode_StartOnly(event, node) == event.ts > node.ts

\* variant: a candidate need only start inside the node, after the node's start
InsideNode_StartsInside(event, node) == event.ts > node.ts /\ event.ts <= EndOf(node)

\* the candidate test of the children loop: inside the node, not identical
InsideNode(event, node) ==
    /\ event.ts >= node.ts
    /\ EndOf(event) <= EndOf(node)
    /\ (event.ts > node.ts \/ EndOf(event) < EndOf(node))

\* is_child_of_other / contained_by_existing_child: an already accepted child covers it
CoveredByChild(children, event) ==
    \E k \in 1 .. Len(children) :
        children[k].ts <= event.ts /\ EndOf(children[k]) >= EndOf(event)

\* one iteration of `for event in events` of build_hierarchy_recursive
Module_ChildStep(children, node, event) ==
    IF DictEq(event, node) THEN children
    ELSE IF ~InsideNode(event, node) THEN children
    ELSE IF CoveredByChild(children, event) THEN children
    ELSE Append(children, event)

\* one iteration of `for event in events` of build_hierarchy
Trace_ChildStep(children, node, event) ==
    IF DictEq(event, node) THEN children
    ELSE IF ~InsideNode(event, node) THEN children
    ELSE IF CoveredByChild(children, event) THEN children
    ELSE IF isdigit(node.name) THEN Append(children, event)
    ELSE IF event.ts > node.ts /\ EndOf(event) < EndOf(node)
         THEN (IF CoveredByChild(children, event) THEN children
               ELSE Append(children, event))
    ELSE children

\* the loop `for event in events`, from its i-th iteration on
RECURSIVE Module_ScanChildren(_, _, _, _)
Module_ScanChildren(evs, node, i, children) ==
    IF i > Len(evs) THEN children
    ELSE Module_ScanChildren(evs, node, i + 1, Module_ChildStep(children, node, evs[i]))

RECURSIVE Trace_ScanChildren(_, _, _, _)
Trace_ScanChildren(evs, node, i, children) ==
    IF i > Len(evs) THEN children
    ELSE Trace_ScanChildren(evs, node, i + 1, Trace_ChildStep(children, node, evs[i]))

\* the children of a node, after children.sort(key=ts)
Module_Children(evs, node) == SortByTs(Module_ScanChildren(evs, node, 1, <<>>))

Trace_Children(evs, node) == SortByTs(Trace_ScanChildren(evs, node, 1, <<>>))

\* ------------------------------------------------------- recursion
\* the dict appended to `hierarchy` for a node (src: the event object it describes)
Entry(node, depth) ==
    [name |-> node.name, depth |-> depth, start_time |-> node.ts,
     duration |-> node.dur, end_time |-> node.ts + node.dur, src |-> node.id]

\* variant: a level skipped at each recursion
ChildDepth_Skip(depth) == depth + 2

\* the depth passed to the recursive call: depth + 1
ChildDepth(depth) == depth + 1

RECURSIVE build_hierarchy_recursive(_, _, _)
RECURSIVE Module_BuildEach(_, _, _, _)
build_hierarchy_recursive(evs, node, depth) ==
    <<Entry(node, depth)>> \o Module_BuildEach(evs, Module_Children(evs, node), 1, ChildDepth(depth))

\* `for child in children: build_hierarchy_recursive(child, depth + 1)` and the root loop
Module_BuildEach(evs, nodes, i, depth) ==
    IF i > Len(nodes) THEN <<>>
    ELSE build_hierarchy_recursive(evs, nodes[i], depth) \o Module_BuildEach(evs, nodes, i + 1, depth)

RECURSIVE build_hierarchy(_, _, _)
RECURSIVE Trace_BuildEach(_, _, _, _)
build_hierarchy(evs, node, depth) ==
    <<Entry(node, depth)>> \o Trace_BuildEach(evs, Trace_Children(evs, node), 1, ChildDepth(depth))

Trace_BuildEach(evs, nodes, i, depth) ==
    IF i > Len(nodes) THEN <<>>
    ELSE build_hierarchy(evs, nodes[i], depth) \o Trace_BuildEach(evs, nodes, i + 1, depth)

\* what build_module_hierarchy(input) returns for a non-empty list: lines 55-132
\* in one piece (sort, root selection, fallback, recursion from every root)
Module_Return(input) ==
    LET evs == SortByTs(input)
        found == Module_FindRootEvents(evs)
        roots == IF found # <<>> THEN found ELSE <<MinByTs(evs)>>
    IN  Module_BuildEach(evs, SortByTs(roots), 1, 0)

\* what parse_trace_hierarchy(input) returns for a non-empty list: lines 9-136
\* in one piece
Trace_Return(input) ==
    LET evs == SortByTs(input)
        found == Trace_FindRootEvents(evs)
        roots == IF found # <<>> THEN found ELSE <<MinByTs(evs)>>
    IN  Trace_BuildEach(evs, SortByTs(roots), 1, 0)

\* -------------------------------------------------------- actions
\* the caller collects one more event of the group into its list
\* (extract_model_structure_events / parse_trace_events: [...].append(event))
Caller_Append ==
    /\ pc = "caller"
    /\ Len(caller_events) < MaxLen
    /\ \E v \in EventValues :
          caller_events' = Append(caller_events,
              [id |-> Len(caller_events) + 1, name |-> v.name, ts |-> v.ts, dur |-> v.dur])
    /\ UNCHANGED <<fn, events, root_events, hierarchy, pc, raised>>

\* build_module_hierarchy(events), up to line 55: events = sorted(events, ...),
\* a new list bound to the local name; the caller's list is not touched
Module_Sort ==
    /\ pc = "caller"
    /\ fn' = "build_module_hierarchy"
    /\ events' = SortByTs(caller_events)
    /\ pc' = "roots"
    /\ UNCHANGED <<caller_events, root_events, hierarchy, raised>>

\* parse_trace_hierarchy(events), up to line 9: events.sort(...), in place on the
\* list object the caller passed
Trace_Sort ==
    /\ pc = "caller"
    /\ fn' = "parse_trace_hierarchy"
    /\ events' = SortByTs(caller_events)
    /\ caller_events' = events'
    /\ pc' = "roots"
    /\ UNCHANGED <<root_events, hierarchy, raised>>

Module_FindRoots ==
    /\ fn = "build_module_hierarchy" /\ pc = "roots"
    /\ root_events' = Module_FindRootEvents(events)
    /\ pc' = "fallback"
    /\ UNCHANGED <<fn, caller_events, events, hierarchy, raised>>

Trace_FindRoots ==
    /\ fn = "parse_trace_hierarchy" /\ pc = "roots"
    /\ root_events' = Trace_FindRootEvents(events)
    /\ pc' = "fallback"
    /\ UNCHANGED <<fn, caller_events, events, hierarchy, raised>>

\* `if not root_events: root_events = [min(events, key=ts)]`; min() of an empty
\* list raises ValueError, which leaves the function
Fallback ==
    /\ pc = "fallback"
    /\ IF root_events # <<>>
       THEN /\ pc' = "build"
            /\ UNCHANGED <<root_events, raised>>
       ELSE IF events = <<>>
       THEN /\ raised' = "ValueError"
            /\ pc' = "raised"
            /\ UNCHANGED root_events
       ELSE /\ root_events' = <<MinByTs(events)>>
            /\ pc' = "build"
            /\ UNCHANGED raised
    /\ UNCHANGED <<fn, caller_events, events, hierarchy>>

\* `for root in sorted(root_events, key=ts): build_hierarchy_recursive(root)`; return
Module_Build ==
    /\ fn = "build_module_hierarchy" /\ pc = "build"
    /\ hierarchy' = Module_BuildEach(events, SortByTs(root_events), 1, 0)
    /\ pc' = "done"
    /\ UNCHANGED <<fn, caller_events, events, root_events, raised>>

Trace_Build ==
    /\ fn = "parse_trace_hierarchy" /\ pc = "build"
    /\ hierarchy' = Trace_BuildEach(events, SortByTs(root_events), 1, 0)
    /\ pc' = "done"
    /\ UNCHANGED <<fn, caller_events, events, root_events, raised>>

Next ==
    \/ Caller_Append
    \/ Module_Sort
    \/ Trace_Sort
    \/ Module_FindRoots
    \/ Trace_FindRoots
    \/ Fallback
    \/ Module_Build
    \/ Trace_Build

Spec == Init /\ [][Next]_vars

TypeOK ==
    /\ pc \in {"caller", "roots", "fallback", "build", "done", "raised"}
    /\ fn \in {"none", "build_module_hierarchy", "parse_trace_hierarchy"}
    /\ raised \in {"none", "ValueError"}
    /\ Len(caller_events) <= MaxLen

\* ===================================================== properties
\* Vocabulary of the properties, stated on the input and on the returned sequence
\* only.  `events` holds the input intervals (start-sorted); an entry's `src`
\* names the interval it describes, and is that interval's position in the list
\* the caller built.

Returned == pc = "done"

InputIds == {events[i].id : i \in 1 .. Len(events)}

InputById(i) == CHOOSE e \in {events[k] : k \in 1 .. Len(events)} : e.id = i

\* strictly_contains(a, b) on spans (start, end)
SpanStrictlyContains(as, ae, bs, be) == as <= bs /\ ae >= be /\ (as < bs \/ ae > be)

EvStrictlyContains(a, b) == SpanStrictlyContains(a.ts, a.ts + a.dur, b.ts, b.ts + b.dur)

EntryStrictlyContains(x, y) ==
    SpanStrictlyContains(x.start_time, x.end_time, y.start_time, y.end_time)

\* ids of the intervals no other interval of the input strictly contains
UncontainedIds ==
    {i \in InputIds : ~\E j \in InputIds : j # i /\ EvStrictlyContains(InputById(j), InputById(i))}

\* positions of the output entries that describe interval i
EntriesOf(i) == {k \in 1 .. Len(hierarchy) : hierarchy[k].src = i}

Depth0 == {k \in 1 .. Len(hierarchy) : hierarchy[k].depth = 0}

\* positions of the entries emitted as children of the entry at position k
ChildEntries(k) ==
    {j \in (k + 1) .. Len(hierarchy) :
        /\ hierarchy[j].depth = hierarchy[k].depth + 1
        /\ \A m \in (k + 1) .. (j - 1) : hierarchy[m].depth > hierarchy[k].depth}

\* ids of the intervals strictly contained in interval i
InsideIds(i) == {j \in InputIds : j # i /\ EvStrictlyContains(InputById(i), InputById(j))}

\* ... that no other interval strictly contained in i strictly contains
NearestInsideIds(i) ==
    {j \in InsideIds(i) :
        ~\E c \in InsideIds(i) : c # j /\ EvStrictlyContains(InputById(c), InputById(j))}

\* ------------------------------------------------------------ C1
\* C1 (coverage): the returned sequence has as many entries as the input has
\* intervals and every input interval appears in it exactly once.
C1_Coverage ==
    Returned =>
        /\ Len(hierarchy) = Len(events)
        /\ \A i \in InputIds : Cardinality(EntriesOf(i)) = 1

\* ------------------------------------------------------------ C2
\* C2 (empty input): a builder called with an empty list raises nothing and
\* returns an empty sequence.
C2_EmptyInputNoError ==
    (fn # "none" /\ events = <<>>) =>
        /\ raised = "none"
        /\ pc # "raised"
        /\ (Returned => hierarchy = <<>>)

\* ------------------------------------------------------------ C3
\* C3 (nearest containment): the children emitted under a visited node (any node
\* of build_module_hierarchy, a node without a numeric name in
\* parse_trace_hierarchy) are exactly the intervals strictly contained in the
\* node that no other interval strictly contained in the node strictly contains.
C3_NearestChildren ==
    Returned =>
        \A k \in 1 .. Len(hierarchy) :
            (fn = "build_module_hierarchy" \/ ~isdigit(hierarchy[k].name)) =>
                /\ {hierarchy[j].src : j \in ChildEntries(k)} = NearestInsideIds(hierarchy[k].src)
                /\ Cardinality(ChildEntries(k)) = Cardinality(NearestInsideIds(hierarchy[k].src))

\* ------------------------------------------------------------ C4
\* C4 (numeric flatten): in parse_trace_hierarchy every interval strictly
\* contained in a visited node with a numeric name is emitted as a direct child
\* of that node, whether or not one of them contains another.
C4_NumericFlatten ==
    (Returned /\ fn = "parse_trace_hierarchy") =>
        \A k \in 1 .. Len(hierarchy) :
            isdigit(hierarchy[k].name) =>
                {hierarchy[j].src : j \in ChildEntries(k)} = InsideIds(hierarchy[k].src)

\* ------------------------------------------------------------ C5
\* C5 (roots of build_module_hierarchy): for a non-empty input the fallback is
\* not needed, and the depth-0 entries are exactly the intervals no other
\* interval strictly contains, each once, in ascending start order, equal starts
\* in the order of the input list.
C5_ModuleRoots ==
    (fn = "build_module_hierarchy" /\ events # <<>>) =>
        /\ (pc = "fallback" => root_events # <<>>)
        /\ (Returned =>
              /\ {hierarchy[k].src : k \in Depth0} = UncontainedIds
              /\ Cardinality(Depth0) = Cardinality(UncontainedIds)
              /\ \A k \in Depth0 : \A l \in Depth0 :
                    k < l =>
                        /\ hierarchy[k].start_time <= hierarchy[l].start_time
                        /\ (hierarchy[k].start_time = hierarchy[l].start_time
                              => hierarchy[k].src < hierarchy[l].src))

\* two intervals of identical span, contained in nothing, next to a third interval
C5_Witness ==
    /\ Returned /\ fn = "build_module_hierarchy"
    /\ Len(events) = 3
    /\ \E k \in Depth0 : \E l \in Depth0 :
          /\ k < l
          /\ hierarchy[k].start_time = hierarchy[l].start_time
          /\ hierarchy[k].end_time = hierarchy[l].end_time
          /\ hierarchy[k].duration > 0

\* ------------------------------------------------------------ C6
\* C6 (numeric-root exclusion): the root selector of parse_trace_hierarchy never
\* selects an interval with a numeric name; when some interval without a numeric
\* name is contained in no other, the depth-0 entries are exactly the uncontained
\* intervals without a numeric name.
NonNumericUncontainedIds == {i \in UncontainedIds : ~isdigit(InputById(i).name)}

C6_NumericRootExclusion ==
    fn = "parse_trace_hierarchy" =>
        /\ (pc = "fallback" =>
              \A r \in 1 .. Len(root_events) : ~isdigit(root_events[r].name))
        /\ ((Returned /\ NonNumericUncontainedIds # {}) =>
              /\ {hierarchy[k].src : k \in Depth0} = NonNumericUncontainedIds
              /\ Cardinality(Depth0) = Cardinality(NonNumericUncontainedIds)
              /\ \A k \in Depth0 : ~isdigit(hierarchy[k].name))

\* an uncontained numeric interval next to an uncontained non-numeric one
C6_Witness ==
    /\ Returned /\ fn = "parse_trace_hierarchy"
    /\ NonNumericUncontainedIds # {}
    /\ UncontainedIds # NonNumericUncontainedIds

\* ------------------------------------------------------------ C7
\* C7 (degenerate-root fallback): for a non-empty input whose root set (after the
\* numeric exclusion) is empty the builder raises nothing, and the output has one
\* depth-0 entry, its first, describing the first interval of least start.
RootSetEmpty ==
    /\ events # <<>>
    /\ \A i \in UncontainedIds : fn = "parse_trace_hierarchy" /\ isdigit(InputById(i).name)

C7_DegenerateRootFallback ==
    (fn # "none" /\ RootSetEmpty) =>
        /\ raised = "none"
        /\ pc # "raised"
        /\ (Returned =>
              /\ Depth0 = {1}
              /\ \A i \in InputIds :
                    /\ hierarchy[1].start_time <= InputById(i).ts
                    /\ (hierarchy[1].start_time = InputById(i).ts => hierarchy[1].src <= i))

\* the fallback picked an interval that was not the first of the caller's list
C7_Witness ==
    /\ Returned /\ RootSetEmpty
    /\ Len(events) >= 2
    /\ hierarchy[1].src # 1

\* ------------------------------------------------------------ C8
\* C8 (depth consistency): every entry of depth d > 0 has exactly one earlier
\* entry of depth d - 1 whose interval strictly contains it.
C8_DepthConsistency ==
    Returned =>
        \A k \in 1 .. Len(hierarchy) :
            hierarchy[k].depth > 0 =>
                Cardinality({j \in 1 .. (k - 1) :
                    /\ hierarchy[j].depth = hierarchy[k].depth - 1
                    /\ EntryStrictlyContains(hierarchy[j], hierarchy[k])}) = 1

\* ------------------------------------------------------------ C9
\* C9 (sibling order): the roots, and the children of any one node, are emitted
\* in ascending start order, equal starts in the order of the input list.
Siblings(k, l) ==
    /\ k < l
    /\ hierarchy[k].depth = hierarchy[l].depth
    /\ \A m \in (k + 1) .. (l - 1) : hierarchy[m].depth >= hierarchy[k].depth

C9_SiblingOrder ==
    Returned =>
        \A k \in 1 .. Len(hierarchy) : \A l \in 1 .. Len(hierarchy) :
            Siblings(k, l) =>
                /\ hierarchy[k].start_time <= hierarchy[l].start_time
                /\ (hierarchy[k].start_time = hierarchy[l].start_time
                      => hierarchy[k].src < hierarchy[l].src)

\* two children of one node with equal start, and the caller listed a later
\* start before an earlier one
C9_Witness ==
    /\ Returned
    /\ \E k \in 1 .. Len(hierarchy) : \E l \in 1 .. Len(hierarchy) :
          /\ Siblings(k, l)
          /\ hierarchy[k].depth = 1
          /\ hierarchy[k].start_time = hierarchy[l].start_time
    /\ \E i \in InputIds : \E j \in InputIds : i < j /\ InputById(i).ts > InputById(j).ts

\* ------------------------------------------------------------ C10
\* C10 (no depth beyond the nesting): an entry of depth d describes an interval
\* for which the input holds a chain of at least d intervals, each strictly
\* containing the next and the last strictly containing the interval.
SetMax(S) == CHOOSE x \in S : \A y \in S : y <= x

RECURSIVE NestingDepth(_)
NestingDepth(i) ==
    LET outer == {j \in InputIds : j # i /\ EvStrictlyContains(InputById(j), InputById(i))}
    IN  IF outer = {} THEN 0 ELSE 1 + SetMax({NestingDepth(j) : j \in outer})

C10_DepthWithinNesting ==
    Returned =>
        \A k \in 1 .. Len(hierarchy) : hierarchy[k].depth <= NestingDepth(hierarchy[k].src)

\* a chain of three nested intervals, the innermost emitted at depth 2
C10_Witness ==
    /\ Returned
    /\ \E k \in 1 .. Len(hierarchy) :
          hierarchy[k].depth = 2 /\ NestingDepth(hierarchy[k].src) = 2

\* ------------------------------------------------------------ C11
\* C11 (termination): the recursion of either builder ends and the call returns.
\* Stated with its variant: every node the recursion goes into from a node has a
\* strictly smaller duration than that node (a natural number, so the descent is
\* finite); the number of nested calls that produced an entry (its depth + 1)
\* never exceeds the longest chain of strictly nested intervals of the input;
\* and a call on a non-empty input is never left by an exception.
LongestChain == SetMax({NestingDepth(i) + 1 : i \in InputIds})

C11_RecursionTerminates ==
    /\ ((fn # "none" /\ events # <<>>) => pc # "raised" /\ raised = "none")
    /\ (Returned =>
          \A k \in 1 .. Len(hierarchy) :
              /\ hierarchy[k].duration >= 0
              /\ hierarchy[k].depth + 1 <= LongestChain
              /\ \A j \in ChildEntries(k) : hierarchy[j].duration < hierarchy[k].duration)

\* a recursion three calls deep in parse_trace_hierarchy, down to a point event
C11_Witness ==
    /\ Returned /\ fn = "parse_trace_hierarchy"
    /\ \E k \in 1 .. Len(hierarchy) :
          /\ hierarchy[k].depth = 2
          /\ hierarchy[k].duration = 0
          /\ LongestChain = 3

\* ------------------------------------------------------------ C12
\* C12 (read-only input): no step of a call to either builder changes the
\* caller's list: it holds the same intervals in the same order afterwards.
C12_InputUnchanged == [][fn' # "none" => caller_events' = caller_events]_vars

\* ------------------------------------------------------------ C13
\* C13 (the builders differ on numeric names only): for an input without a
\* numeric name, parse_trace_hierarchy returns the same sequence of
\* (name, depth, start_time, duration, end_time) as build_module_hierarchy
\* returns for that input.
Keys(h) ==
    [k \in 1 .. Len(h) |->
        [name |-> h[k].name, depth |-> h[k].depth, start_time |-> h[k].start_time,
         duration |-> h[k].duration, end_time |-> h[k].end_time]]

\* the list as the caller built it
OriginalInput == [i \in 1 .. Len(events) |-> InputById(i)]

NoNumericName == \A i \in 1 .. Len(events) : ~isdigit(events[i].name)

C13_SameWithoutNumericNames ==
    (Returned /\ fn = "parse_trace_hierarchy" /\ NoNumericName) =>
        Keys(hierarchy) = Keys(Module_Return(OriginalInput))

\* ------------------------------------------------------------ C14
\* C14 (pre-order, subtrees inside their node): the first entry has depth 0; an
\* entry is at most one level deeper than the entry before it; every entry of
\* the run of deeper entries that follows an entry describes an interval strictly
\* contained in that entry's interval; an entry of duration 0 is not followed by
\* a deeper entry.
InSubtreeRun(i, j) ==
    /\ i < j
    /\ \A m \in (i + 1) .. j : hierarchy[m].depth > hierarchy[i].depth

C14_PreorderContainment ==
    Returned =>
        /\ (hierarchy # <<>> => hierarchy[1].depth = 0)
        /\ \A k \in 2 .. Len(hierarchy) : hierarchy[k].depth <= hierarchy[k - 1].depth + 1
        /\ \A i \in 1 .. Len(hierarchy) : \A j \in 1 .. Len(hierarchy) :
              InSubtreeRun(i, j) => EntryStrictlyContains(hierarchy[i], hierarchy[j])
        /\ \A k \in 1 .. (Len(hierarchy) - 1) :
              hierarchy[k].duration = 0 => hierarchy[k + 1].depth <= hierarchy[k].depth

\* a subtree run of two levels, and a point event followed by another entry
C14_Witness ==
    /\ Returned
    /\ \E i \in 1 .. Len(hierarchy) : \E j \in 1 .. Len(hierarchy) :
          InSubtreeRun(i, j) /\ hierarchy[j].depth = hierarchy[i].depth + 2
    /\ \E k \in 1 .. (Len(hierarchy) - 1) : hierarchy[k].duration = 0

\* ------------------------------------------------------------ C15
\* C15 (input order does not matter): for every other order in which the caller
\* could have listed the same intervals, the builder returns the same multiset
\* of (name, start, duration, depth) entries.
Shape(h) ==
    [k \in 1 .. Len(h) |->
        [name |-> h[k].name, start_time |-> h[k].start_time,
         duration |-> h[k].duration, depth |-> h[k].depth]]

CountIn(h, x) == Cardinality({k \in 1 .. Len(h) : h[k] = x})

SameMultiset(g, h) ==
    /\ Len(g) = Len(h)
    /\ \A k \in 1 .. Len(g) : CountIn(g, g[k]) = CountIn(h, g[k])

Orders(n) == {p \in [1 .. n -> 1 .. n] : \A i \in 1 .. n : \E j \in 1 .. n : p[j] = i}

Reordered(input, p) == [i \in 1 .. Len(input) |-> input[p[i]]]

ReturnOf(input) ==
    IF fn = "build_module_hierarchy" THEN Module_Return(input) ELSE Trace_Return(input)

C15_OrderIndependent ==
    Returned =>
        \A p \in Orders(Len(events)) :
            SameMultiset(Shape(hierarchy), Shape(ReturnOf(Reordered(OriginalInput, p))))
====
